---- MODULE Spec2Model ----
(***************************************************************************)
(* ElgatoKeyLight2MQTT: the bridge's control loop (src/main.py), the light *)
(* client (src/leglight/leglight.py) and discovery                         *)
(* (src/leglight/discovery.py) as a state machine.                         *)
(*                                                                         *)
(* The program state is the registry all_lights (a Python list of LegLight *)
(* objects), the dictionary ping_failures and the position of run()'s      *)
(* loop.  Everything the network answers (discovery results, HTTP          *)
(* responses, MQTT messages, the passing of time) is an input chosen by    *)
(* the environment.  The variable last records the last handler that ran,  *)
(* with its inputs and the network calls it issued; probe_streak counts    *)
(* the failed probes in a row that cleanup_lights has made of a device;    *)
(* unknown_reported says whether some message has ended at the "not found" *)
(* warning.  The three are observations: no action reads them.             *)
(***************************************************************************)
EXTENDS Integers, Sequences, FiniteSets, TLC

VARIABLES all_lights, ping_failures, pc, last, probe_streak, unknown_reported

vars == <<all_lights, ping_failures, pc, last, probe_streak, unknown_reported>>

(***************************************************************************)
(* Bounds of the model.                                                    *)
(***************************************************************************)
\* the most lights one discover() call returns
MaxFound == 2
\* ping_failures[serial] is not counted past this value
MaxFailures == 3
\* LegLight.color is tried with every temp from this far below 2900 to
\* this far above 7000
FitMargin == 50

(***************************************************************************)
(* Values.                                                                 *)
(***************************************************************************)
\* serialNumber strings devices report in /elgato/accessory-info
Serials == {"SN123", "sn123", "SN456"}
\* serials MQTT clients put in the topic
TopicSerials == {"SN123", "sn123", "SN456", "SN999"}
Addresses == {"10.0.0.5", "10.0.0.9"}
Ports == {9123}

\* str.lower() on the serials of the model
Lower(s) ==
    CASE s = "SN123" -> "sn123"
      [] s = "SN456" -> "sn456"
      [] s = "SN999" -> "sn999"
      [] OTHER -> s

LowerSerials == {Lower(s) : s \in Serials \cup TopicSerials}

(***************************************************************************)
(* leglight.py: unit conversion.                                           *)
(***************************************************************************)
FixedPointScale == 100000
\* ln(4500) * FixedPointScale, rounded
Ln4500Scaled == 841183

\* ln(val) * FixedPointScale, from ln(v) = ln(4500) + 2*atanh((v-4500)/(v+4500))
\* with the series of atanh cut after the fifth power
LnScaled(val) ==
    LET series(y, y2, y3) ==
            2 * y + (2 * y3) \div 3 + (2 * ((y3 * y2) \div FixedPointScale)) \div 5
        cubed(y, y2) == series(y, y2, (y * y2) \div FixedPointScale)
        squared(y) == cubed(y, (y * y) \div FixedPointScale)
        h(a) == squared((a * FixedPointScale) \div (val + 4500))
    IN  IF val < 4500 THEN Ln4500Scaled - h(4500 - val)
        ELSE Ln4500Scaled + h(val - 4500)

\* 100 * 987007 * val^0.001 = 100 * 987007 * exp(x), x = ln(val)/1000,
\* with exp cut after the cubic term
ScaledNumerator(val) ==
    LET terms(L, q, r) ==
            98700700
            + ((987007 * q) \div 1000 + (987007 * r) \div 1000000)
            + ((((L \div 100) * (L \div 100)) \div 1000) * 4935) \div 100000
            + (1645 * ((q * q * q) \div 1000000)) \div 100000
        split(L) == terms(L, L \div 1000, L % 1000)
    IN  split(LnScaled(val))

\* colorFit: int(round(987007 * val ** -0.999, 0)), in integer arithmetic.
\* Equal to the Python value for every val in 2900..7000, the only values
\* color() passes.
colorFit(val) ==
    (2 * ScaledNumerator(val) + 100 * val) \div (200 * val)

\* postFit with round(..., -3): rounds to the nearest thousand
postFit_thousands(val) ==
    LET q == 1000000 \div (1000 * val)
        r == 1000000 % (1000 * val)
    IN  IF 2 * r > 1000 * val THEN 1000 * (q + 1)
        ELSE IF 2 * r < 1000 * val THEN 1000 * q
        ELSE 1000 * (q + (q % 2))

\* postFit: int(round(1000000 * val ** -1, -2)) for val > 0: 1000000/val
\* rounded to the nearest hundred, a tie going to the even hundred.
postFit(val) ==
    LET q == 1000000 \div (100 * val)
        r == 1000000 % (100 * val)
    IN  IF 2 * r > 100 * val THEN 100 * (q + 1)
        ELSE IF 2 * r < 100 * val THEN 100 * q
        ELSE 100 * (q + (q % 2))

(***************************************************************************)
(* leglight.py: the LegLight object and what the device answers.           *)
(***************************************************************************)
\* what GET /elgato/lights answers: a status ("ok"), a lights entry without
\* fields ("empty"), a requests.exceptions.RequestException ("fail"), or a
\* body info() cannot index, such as {"lights": []} ("bad")
StatusReports ==
    { [kind |-> "ok", on |-> 0, brightness |-> 20, temperature |-> 344],
      [kind |-> "ok", on |-> 1, brightness |-> 50, temperature |-> 143] }
EmptyReport == [kind |-> "empty", on |-> 0, brightness |-> 0, temperature |-> 0]
FailedGet == [kind |-> "fail", on |-> 0, brightness |-> 0, temperature |-> 0]
BadGet == [kind |-> "bad", on |-> 0, brightness |-> 0, temperature |-> 0]
GetResponses == StatusReports \cup {EmptyReport, FailedGet, BadGet}

\* what PUT /elgato/lights answers: the applied state ("ok"), a
\* RequestException ("fail"), or a body without the field read ("bad")
PutResponses == {"ok", "fail", "bad"}

\* what HEAD /elgato/accessory-info answers: 200 ("ok"), another status or a
\* RequestException ("fail"), or an exception that is no RequestException
\* ("raise")
PingResponses == {"ok", "fail", "raise"}

\* one HTTP request sent to a device, with the kind of answer it got
Call(method, light, path, field, value, resp) ==
    [method |-> method, address |-> light.address, port |-> light.port,
     path |-> path, field |-> field, value |-> value, resp |-> resp]

LightsPath == "/elgato/lights"
InfoPath == "/elgato/accessory-info"

\* LegLight.info: reads the status, stores it in the object and returns it
info(light, resp) ==
    CASE resp.kind = "ok" ->
           LET t == postFit(resp.temperature)
           IN  [light |-> [light EXCEPT !.isOn = resp.on,
                                        !.isBrightness = resp.brightness,
                                        !.isTemperature = t],
                state |-> [on |-> resp.on, brightness |-> resp.brightness,
                           temperature |-> t],
                raised |-> FALSE]
      [] resp.kind = "empty" ->
           LET t == postFit(2900)
           IN  [light |-> [light EXCEPT !.isOn = 0, !.isBrightness = 0,
                                        !.isTemperature = t],
                state |-> [on |-> 0, brightness |-> 0, temperature |-> t],
                raised |-> FALSE]
      [] resp.kind = "fail" ->
           [light |-> light,
            state |-> [on |-> -1, brightness |-> -1, temperature |-> -1],
            raised |-> FALSE]
      [] OTHER ->
           [light |-> light,
            state |-> [on |-> -1, brightness |-> -1, temperature |-> -1],
            raised |-> TRUE]

\* LegLight.__init__ once accessory-info has answered with serialNumber:
\* the status fields are set to 0 and info() is called
LegLight(address, port, serialNumber, resp) ==
    info([serialNumber |-> serialNumber, address |-> address, port |-> port,
          isOn |-> 0, isBrightness |-> 0, isTemperature |-> 0], resp)

\* LegLight.on / LegLight.off: value is the "on" field sent (1 or 0)
power_put(light, value, resp) ==
    [light |-> IF resp = "ok" THEN [light EXCEPT !.isOn = value] ELSE light,
     calls |-> <<Call("PUT", light, LightsPath, "on", value, resp)>>,
     raised |-> resp = "bad"]

on(light, resp) == power_put(light, 1, resp)

off(light, resp) == power_put(light, 0, resp)

\* LegLight.brightness without the test of line 70
brightness_unchecked(light, level, resp) ==
    [light |-> IF resp = "ok" THEN [light EXCEPT !.isBrightness = level]
               ELSE light,
     calls |-> <<Call("PUT", light, LightsPath, "brightness", level, resp)>>,
     raised |-> resp = "bad"]

\* LegLight.brightness
brightness(light, level, resp) ==
    IF 0 <= level /\ level <= 100
    THEN [light |-> IF resp = "ok" THEN [light EXCEPT !.isBrightness = level]
                    ELSE light,
          calls |-> <<Call("PUT", light, LightsPath, "brightness", level, resp)>>,
          raised |-> resp = "bad"]
    ELSE [light |-> light, calls |-> <<>>, raised |-> FALSE]

\* LegLight.color
color(light, temp, resp) ==
    LET put(native) ==
            [light |-> IF resp = "ok"
                       THEN [light EXCEPT !.isTemperature = postFit(native)]
                       ELSE light,
             calls |-> <<Call("PUT", light, LightsPath, "temperature", native, resp)>>,
             raised |-> resp = "bad"]
    IN  IF 2900 <= temp /\ temp <= 7000
        THEN put(colorFit(temp))
        ELSE [light |-> light, calls |-> <<>>, raised |-> FALSE]

\* LegLight.ping: True, False, or an exception that escapes it
ping(resp) ==
    [result |-> resp = "ok", raised |-> resp = "raise"]

(***************************************************************************)
(* main.py: KeyLight2MQTT.                                                 *)
(***************************************************************************)
\* the failures at which is_light_responsive answers False
FailureLimit == 3

\* is_light_responsive: ping()'s answer, or, when ping() raises, the
\* failure count is raised by one and compared with the limit
is_light_responsive(light, resp, failures) ==
    LET p == ping(resp)
        n == failures[light.serialNumber] + 1
    IN  IF p.raised
        THEN [responsive |-> n < FailureLimit,
              ping_failures |-> [failures EXCEPT ![light.serialNumber] = n],
              calls |-> <<Call("HEAD", light, InfoPath, "", 0, resp)>>]
        ELSE [responsive |-> p.result,
              ping_failures |-> failures,
              calls |-> <<Call("HEAD", light, InfoPath, "", 0, resp)>>]

\* the answers a probe of light may get: an exception is drawn only while
\* the failure count is below the model's bound
PingChoices(light, failures) ==
    IF failures[light.serialNumber] < MaxFailures
    THEN PingResponses
    ELSE PingResponses \ {"raise"}

\* a light a discover() call can hand back: a LegLight whose constructor
\* returned (accessory-info answered with serialNumber, info() did not raise)
FoundLight(address, port, serialNumber, resp) ==
    LegLight(address, port, serialNumber, resp).light

SeqsUpTo(S, n) == UNION { [1..k -> S] : k \in 0..n }

\* leglight.discover(2): the lists it can return when the lights that
\* answer are among found
Snapshots(found) == SeqsUpTo(found, MaxFound)

\* discover()'s default retry_count
RetryCount == 3

\* how one browse attempt of discover() goes: Zeroconf() or ServiceBrowser()
\* raises ("error"); no callback appends a light ("empty"); the callbacks
\* have appended the answering lights when line 48 looks at the list
\* ("found"); or a callback still running at line 48 appends them after
\* that look, before the browser's thread has ended ("late")
AttemptOutcomes == {"error", "empty", "found", "late"}

Scripts == [1..RetryCount -> AttemptOutcomes]

\* discover(), lines 35-61, from attempt i on.  lights is the list the
\* callbacks have filled so far, ended is the first attempt at whose end
\* the list held a light (0: none yet).  discovery_complete is set exactly
\* when a light has been appended, and then the wait of line 45 is over at
\* once.
RECURSIVE browse_from(_, _, _, _, _)
browse_from(script, answering, lights, ended, i) ==
    IF i > Len(script)
    THEN [lights |-> lights, attempts |-> Len(script), ended |-> ended]
    ELSE IF script[i] = "error"
    THEN browse_from(script, answering, lights, ended, i + 1)
    ELSE IF lights # <<>>
    THEN [lights |-> lights, attempts |-> i, ended |-> ended]
    ELSE IF script[i] = "found" /\ answering # <<>>
    THEN [lights |-> answering, attempts |-> i, ended |-> i]
    ELSE IF script[i] = "late" /\ answering # <<>>
    THEN browse_from(script, answering, answering, i, i + 1)
    ELSE browse_from(script, answering, lights, ended, i + 1)

\* discover(timeout, retry_count): the list returned, the attempts made,
\* and the first attempt that ended with a light in the list
discover(script, answering) == browse_from(script, answering, <<>>, 0, 1)

\* list.remove(x): the list without its first element equal to x
RECURSIVE Remove(_, _)
Remove(list, x) ==
    IF list = <<>> THEN <<>>
    ELSE IF Head(list) = x THEN Tail(list)
    ELSE <<Head(list)>> \o Remove(Tail(list), x)

\* _update_existing_light from list position i on: the for loop walks
\* all_lights by position while its body removes and appends
RECURSIVE update_existing_from(_, _, _)
update_existing_from(lights, new_light, i) ==
    IF i > Len(lights) THEN lights
    ELSE LET existing_light == lights[i]
         IN  IF Lower(existing_light.serialNumber) = Lower(new_light.serialNumber)
                /\ (existing_light.address # new_light.address
                    \/ existing_light.port # new_light.port)
             THEN update_existing_from(
                      Append(Remove(lights, existing_light), new_light),
                      new_light, i + 1)
             ELSE update_existing_from(lights, new_light, i + 1)

\* _update_existing_light without line 128's remove
update_existing_appending(lights, new_light) ==
    IF \E i \in 1..Len(lights) :
         /\ Lower(lights[i].serialNumber) = Lower(new_light.serialNumber)
         /\ (lights[i].address # new_light.address \/ lights[i].port # new_light.port)
    THEN Append(lights, new_light)
    ELSE lights

_update_existing_light(lights, new_light) ==
    update_existing_from(lights, new_light, 1)

\* line 110 without .lower() on the new light's serial
merge_one_case_sensitive(acc, new_light) ==
    IF new_light.serialNumber \notin acc.all_serials
    THEN [lights |-> Append(acc.lights, new_light),
          all_serials |-> acc.all_serials \cup {Lower(new_light.serialNumber)}]
    ELSE [lights |-> _update_existing_light(acc.lights, new_light),
          all_serials |-> acc.all_serials]

\* discover_lights, lines 110-114: one turn of the loop over discovered_lights
merge_one(acc, new_light) ==
    IF Lower(new_light.serialNumber) \notin acc.all_serials
    THEN [lights |-> Append(acc.lights, new_light),
          all_serials |-> acc.all_serials \cup {Lower(new_light.serialNumber)}]
    ELSE [lights |-> _update_existing_light(acc.lights, new_light),
          all_serials |-> acc.all_serials]

RECURSIVE merge_from(_, _, _)
merge_from(acc, discovered_lights, i) ==
    IF i > Len(discovered_lights) THEN acc
    ELSE merge_from(merge_one(acc, discovered_lights[i]), discovered_lights, i + 1)

\* discover_lights that takes the discovered lights as the registry
merge_replacing(lights, discovered_lights) ==
    merge_from([lights |-> <<>>, all_serials |-> {}], discovered_lights, 1).lights

\* discover_lights, lines 108-114: the registry after the discovered lights
\* have been merged into it
merge(lights, discovered_lights) ==
    merge_from([lights |-> lights,
                all_serials |-> { Lower(lights[i].serialNumber) : i \in 1..Len(lights) }],
               discovered_lights, 1).lights

\* what the observer notes after cleanup_lights has probed light: the
\* failed probes in a row, counted up to FailureLimit
observe_probe(streak, light, resp) ==
    LET k == Lower(light.serialNumber)
    IN  [streak EXCEPT ![k] = IF resp = "ok" THEN 0
                              ELSE IF @ < FailureLimit THEN @ + 1 ELSE @]

\* cleanup_lights, lines 150-154, from list position i on: acc carries
\* ping_failures, lights_to_remove and what the observer notes
RECURSIVE cleanup_probe_from(_, _, _, _)
cleanup_probe_from(lights, resps, acc, i) ==
    IF i > Len(lights) THEN acc
    ELSE LET light == lights[i]
             r == is_light_responsive(light, resps[i], acc.ping_failures)
         IN  cleanup_probe_from(lights, resps,
               [ping_failures |->
                    IF r.responsive
                    THEN [r.ping_failures EXCEPT ![light.serialNumber] = 0]
                    ELSE r.ping_failures,
                lights_to_remove |->
                    IF r.responsive THEN acc.lights_to_remove
                    ELSE Append(acc.lights_to_remove, light),
                calls |-> acc.calls \o r.calls,
                streak |-> observe_probe(acc.streak, light, resps[i])],
               i + 1)

\* cleanup_lights, lines 156-158
RECURSIVE remove_all(_, _)
remove_all(lights, lights_to_remove) ==
    IF lights_to_remove = <<>> THEN lights
    ELSE remove_all(Remove(lights, Head(lights_to_remove)), Tail(lights_to_remove))

\* the MQTT messages of the model: the last two topic levels and the payload
Undecodable == "<bytes that are not UTF-8>"
Messages ==
    [serial : TopicSerials, what : {"power"}, payload : {"on", "off", Undecodable}]
    \cup [serial : TopicSerials, what : {"brightness"}, payload : {"50", "150", "abc"}]
    \cup [serial : TopicSerials, what : {"color"}, payload : {"7000", "1000"}]
    \cup [serial : TopicSerials, what : {"scene"}, payload : {"on"}]

\* msg.payload.decode("utf-8") succeeds
Decodable(payload) == payload # Undecodable

\* int(value) succeeds
IsInt(value) ==
    value \in {"50", "150", "7000", "1000",
               "-1", "0", "100", "101", "2899", "2900", "7001"}

\* int(value)
IntOf(value) ==
    CASE value = "50" -> 50
      [] value = "150" -> 150
      [] value = "7000" -> 7000
      [] value = "-1" -> 0 - 1
      [] value = "0" -> 0
      [] value = "100" -> 100
      [] value = "101" -> 101
      [] value = "2899" -> 2899
      [] value = "2900" -> 2900
      [] value = "7001" -> 7001
      [] OTHER -> 1000

\* the position of the first light whose serial is serial ignoring case,
\* 0 when there is none (line 62)
find_light(lights, serial) ==
    LET hits == { i \in 1..Len(lights) :
                    Lower(lights[i].serialNumber) = Lower(serial) }
    IN  IF hits = {} THEN 0
        ELSE CHOOSE i \in hits : \A j \in hits : i <= j

\* set_light_power with line 41's "not" left out
set_light_power_inverted(light, state, power, resp) ==
    IF power = "on" /\ state.on # 0
    THEN [light |-> on(light, resp).light, calls |-> on(light, resp).calls]
    ELSE IF power = "off" /\ state.on # 0
    THEN [light |-> off(light, resp).light, calls |-> off(light, resp).calls]
    ELSE [light |-> light, calls |-> <<>>]

\* set_light_power: Python takes any nonzero state['on'] as true
set_light_power(light, state, power, resp) ==
    IF power = "on" /\ state.on = 0
    THEN [light |-> on(light, resp).light, calls |-> on(light, resp).calls]
    ELSE IF power = "off" /\ state.on # 0
    THEN [light |-> off(light, resp).light, calls |-> off(light, resp).calls]
    ELSE [light |-> light, calls |-> <<>>]

\* mqtt_on_message, lines 72-88, once the light has answered the probe:
\* the light afterwards, the calls issued, and how the handler ended
apply_setting(light, what, value, getResp, putResp) ==
    LET get == <<Call("GET", light, LightsPath, "", 0, getResp.kind)>>
        ended(i, l, puts, outcome) ==
            [light |-> l, calls |-> get \o puts, state |-> i.state,
             outcome |-> outcome]
        powered(i, r) == ended(i, r.light, r.calls, "done")
        put(i, r) == ended(i, r.light, r.calls, IF r.raised THEN "error" ELSE "done")
        after(i) ==
            IF i.raised
            THEN ended(i, i.light, <<>>, "error")
            ELSE IF what = "power"
            THEN powered(i, set_light_power(i.light, i.state, value, putResp))
            ELSE IF what = "brightness"
            THEN IF ~IsInt(value)
                 THEN ended(i, i.light, <<>>, "error")
                 ELSE IF i.state.brightness # IntOf(value)
                 THEN put(i, brightness(i.light, IntOf(value), putResp))
                 ELSE ended(i, i.light, <<>>, "done")
            ELSE IF what = "color"
            THEN IF ~IsInt(value)
                 THEN ended(i, i.light, <<>>, "error")
                 ELSE IF i.state.temperature # IntOf(value)
                 THEN put(i, color(i.light, IntOf(value), putResp))
                 ELSE ended(i, i.light, <<>>, "done")
            ELSE ended(i, i.light, <<>>, "done")
    IN  after(info(light, getResp))

\* the state dict of a handler that has not called info()
NoState == [on |-> -1, brightness |-> -1, temperature |-> -1]

\* mqtt_on_message: the registry, ping_failures, the calls issued, the
\* state dict info() returned, and how the handler ended: "raised" (the
\* exception leaves the handler), "unknown" (line 64), "not_responding"
\* (line 69), "error" (line 87), "done"
on_message(lights, failures, msg, pingResp, getResp, putResp) ==
    LET ended(calls, outcome) ==
            [lights |-> lights, ping_failures |-> failures, calls |-> calls,
             state |-> NoState, outcome |-> outcome]
        probed(n, p, a) ==
            IF ~p.responsive
            THEN [lights |-> lights, ping_failures |-> p.ping_failures,
                  calls |-> p.calls, state |-> NoState,
                  outcome |-> "not_responding"]
            ELSE [lights |-> [lights EXCEPT ![n] = a.light],
                  ping_failures |-> p.ping_failures,
                  calls |-> p.calls \o a.calls, state |-> a.state,
                  outcome |-> a.outcome]
        found(n) ==
            IF n = 0 THEN ended(<<>>, "unknown")
            ELSE probed(n, is_light_responsive(lights[n], pingResp, failures),
                        apply_setting(lights[n], msg.what, msg.payload,
                                      getResp, putResp))
    IN  IF ~Decodable(msg.payload) THEN ended(<<>>, "raised")
        ELSE found(find_light(lights, msg.serial))

(***************************************************************************)
(* The state machine: run()'s loop, lines 177-181.  An environment E names *)
(* what the network can answer: the lights discovery finds, the MQTT       *)
(* messages that arrive, and the answers to GET, PUT and HEAD.             *)
(***************************************************************************)
NoMessage == [serial |-> "", what |-> "", payload |-> ""]

Observed(op, msg, snapshot, calls, state, outcome) ==
    [op |-> op, msg |-> msg, snapshot |-> snapshot, calls |-> calls,
     state |-> state, outcome |-> outcome,
     \* what leglight.discover did when the handler called it
     attempts |-> 0, ended |-> 0,
     \* the lights whose close() was called
     closed |-> <<>>,
     \* the registry positions whose record a discover_lights pass took out
     replaced |-> {},
     \* the temp argument, when LegLight.color was called on its own
     temp |-> 0]

\* KeyLight2MQTT.__init__, and run() up to its loop
Init ==
    /\ all_lights = <<>>
    /\ ping_failures = [s \in Serials |-> 0]
    /\ pc = "discover"
    /\ last = Observed("init", NoMessage, <<>>, <<>>, NoState, "")
    /\ probe_streak = [k \in LowerSerials |-> 0]
    /\ unknown_reported = FALSE

\* discover_lights, lines 101-104 and 119-121: elapsed says whether more
\* than discovery_interval seconds have passed since last_light_discover.
\* When the pass is due the loop's thread is inside leglight.discover(2)
\* until discover_returns.
discover_lights ==
    /\ pc = "discover"
    /\ \E elapsed \in BOOLEAN :
         IF all_lights = <<>> \/ elapsed
         THEN /\ pc' = "discovering"
              /\ last' = last
         ELSE /\ pc' = "cleanup"
              /\ last' = Observed("discover_cached", NoMessage, <<>>, <<>>, NoState, "")
    /\ UNCHANGED <<all_lights, ping_failures, probe_streak, unknown_reported>>

\* discover_lights, lines 105-116: leglight.discover(2) returns after the
\* waits and retries of its attempts, and its lights are merged
discover_returns(E) ==
    /\ pc = "discovering"
    /\ \E answering \in Snapshots(E.found), script \in E.scripts :
       \E d \in {discover(script, answering)} :
       \E merged \in {merge(all_lights, d.lights)} :
         /\ all_lights' = merged
         /\ last' = [Observed("discover", NoMessage, d.lights, <<>>, NoState, "")
                       EXCEPT !.attempts = d.attempts, !.ended = d.ended,
                              !.replaced = { n \in 1..Len(all_lights) :
                                               \A m \in 1..Len(merged) :
                                                 merged[m] # all_lights[n] }]
    /\ pc' = "cleanup"
    /\ UNCHANGED <<ping_failures, probe_streak, unknown_reported>>

\* run() line 179 and cleanup_lights: due says whether more than
\* cleanup_interval seconds have passed since last_light_cleanup
cleanup_lights(E) ==
    /\ pc = "cleanup"
    /\ \E due \in BOOLEAN :
         IF due
         THEN \E resps \in [1..Len(all_lights) -> E.pings] :
                /\ \A i \in 1..Len(all_lights) :
                     resps[i] \in PingChoices(all_lights[i], ping_failures)
                /\ \E r \in {cleanup_probe_from(all_lights, resps,
                                [ping_failures |-> ping_failures,
                                 lights_to_remove |-> <<>>,
                                 calls |-> <<>>,
                                 streak |-> probe_streak], 1)} :
                     /\ all_lights' = remove_all(all_lights, r.lights_to_remove)
                     /\ ping_failures' = r.ping_failures
                     /\ probe_streak' = r.streak
                     /\ last' = Observed("cleanup", NoMessage, <<>>, r.calls, NoState, "")
         ELSE /\ UNCHANGED <<all_lights, ping_failures, probe_streak>>
              /\ last' = Observed("cleanup_not_due", NoMessage, <<>>, <<>>, NoState, "")
    /\ pc' = "loop"
    /\ UNCHANGED unknown_reported

\* the answers drawn for one message: one for each request the handler
\* sends, "none" for a request it does not send
NoGet == [kind |-> "none", on |-> 0, brightness |-> 0, temperature |-> 0]

PingAnswers(E, lights, failures, msg) ==
    LET n == find_light(lights, msg.serial)
    IN  IF Decodable(msg.payload) /\ n # 0
        THEN E.pings \cap PingChoices(lights[n], failures)
        ELSE {"none"}

GetAnswers(E, lights, failures, msg, pingResp) ==
    IF pingResp # "none"
       /\ is_light_responsive(lights[find_light(lights, msg.serial)],
                              pingResp, failures).responsive
    THEN E.gets
    ELSE {NoGet}

PutAnswers(E, lights, failures, msg, pingResp, getResp) ==
    IF getResp.kind # "none"
       /\ Len(on_message(lights, failures, msg, pingResp, getResp, "ok").calls) > 2
    THEN E.puts
    ELSE {"none"}

\* mqtt_client.loop() delivers a message to mqtt_on_message.  An exception
\* that leaves the handler leaves loop() too and ends run()'s loop at
\* line 184; the finally of lines 186-189 then closes the registry's lights.
mqtt_on_message(E) ==
    /\ pc = "loop"
    /\ \E msg \in E.messages :
       \E pingResp \in PingAnswers(E, all_lights, ping_failures, msg) :
       \E getResp \in GetAnswers(E, all_lights, ping_failures, msg, pingResp) :
       \E putResp \in PutAnswers(E, all_lights, ping_failures, msg, pingResp, getResp) :
       \E r \in {on_message(all_lights, ping_failures, msg, pingResp, getResp, putResp)} :
         /\ all_lights' = r.lights
         /\ ping_failures' = r.ping_failures
         /\ last' = [Observed("message", msg, <<>>, r.calls, r.state, r.outcome)
                       EXCEPT !.closed = IF r.outcome = "raised" THEN r.lights
                                         ELSE <<>>]
         /\ pc' = IF r.outcome = "raised" THEN "exited" ELSE "discover"
         /\ unknown_reported' = (unknown_reported \/ r.outcome = "unknown")
         /\ UNCHANGED probe_streak

\* mqtt_client.loop() returns after its timeout without a message
mqtt_loop_idle ==
    /\ pc = "loop"
    /\ pc' = "discover"
    /\ last' = Observed("idle", NoMessage, <<>>, <<>>, NoState, "")
    /\ UNCHANGED <<all_lights, ping_failures, probe_streak, unknown_reported>>

NextIn(E) ==
    \/ discover_lights
    \/ discover_returns(E)
    \/ cleanup_lights(E)
    \/ mqtt_on_message(E)
    \/ mqtt_loop_idle

(***************************************************************************)
(* Environments.                                                           *)
(***************************************************************************)
\* a discover() whose first attempt finds the lights that answer
FirstAttempt == [i \in 1..RetryCount |-> "found"]

OnReport == [kind |-> "ok", on |-> 1, brightness |-> 50, temperature |-> 143]

\* two lights at fixed addresses; every message to one of them and to an
\* unknown serial, power "on" to the other; every answer to GET and PUT;
\* a probe answers or fails
DispatchEnv ==
    [found |-> { FoundLight("10.0.0.5", 9123, "SN123", OnReport),
                 FoundLight("10.0.0.9", 9123, "SN456", OnReport) },
     messages |-> { m \in Messages :
                      \/ m.serial \in {"sn123", "SN999"}
                      \/ m.serial = "SN456" /\ m.what = "power" /\ m.payload = "on" },
     gets |-> StatusReports \cup {FailedGet, BadGet},
     puts |-> PutResponses,
     pings |-> {"ok", "fail"},
     scripts |-> {FirstAttempt}]

\* lights that move or answer under a serial in another case, and one
\* whose first status read may fail; few messages
DiscoveryEnv ==
    [found |-> { FoundLight(a, p, s, OnReport) :
                   a \in Addresses, p \in Ports, s \in Serials }
               \cup { FoundLight(a, p, "SN123", FailedGet) :
                        a \in Addresses, p \in Ports },
     messages |-> { m \in Messages : m.what = "power" /\ m.payload = "off"
                                      /\ m.serial \in {"sn123", "SN999"} },
     gets |-> {OnReport},
     puts |-> {"ok"},
     pings |-> {"ok", "fail"},
     scripts |-> {FirstAttempt}]

\* probes that answer, fail or raise; few messages
HealthEnv ==
    [found |-> { FoundLight("10.0.0.5", 9123, "SN123", OnReport),
                 FoundLight("10.0.0.9", 9123, "SN456", OnReport) },
     messages |-> { m \in Messages : m.what = "power" /\ m.payload = "on"
                                      /\ m.serial \in {"sn123", "SN999"} },
     gets |-> {OnReport},
     puts |-> {"ok"},
     pings |-> PingResponses,
     scripts |-> {FirstAttempt}]

\* one light, and every way the attempts of discover() can go
BrowseEnv ==
    [found |-> { FoundLight("10.0.0.5", 9123, "SN123", OnReport) },
     messages |-> { m \in Messages : m.what = "power" /\ m.payload = "off"
                                      /\ m.serial \in {"sn123", "SN999"} },
     gets |-> {OnReport},
     puts |-> {"ok"},
     pings |-> {"ok", "fail"},
     scripts |-> Scripts]

\* one light, and brightness and color intents at and next to the ends of
\* the ranges
RangeMessages ==
    [serial : {"sn123"}, what : {"brightness"},
     payload : {"-1", "0", "50", "100", "101", "150"}]
    \cup [serial : {"sn123"}, what : {"color"},
          payload : {"1000", "2899", "2900", "7000", "7001"}]

RangeEnv ==
    [found |-> { FoundLight("10.0.0.5", 9123, "SN123", OnReport) },
     messages |-> RangeMessages,
     gets |-> StatusReports \cup {FailedGet},
     puts |-> PutResponses,
     pings |-> {"ok", "fail"},
     scripts |-> {FirstAttempt}]

Next == NextIn(DispatchEnv)
Spec == Init /\ [][Next]_vars

NextDiscovery == NextIn(DiscoveryEnv)
SpecDiscovery == Init /\ [][NextDiscovery]_vars

NextHealth == NextIn(HealthEnv)
SpecHealth == Init /\ [][NextHealth]_vars

NextRange == NextIn(RangeEnv)
SpecRange == Init /\ [][NextRange]_vars

NextBrowse == NextIn(BrowseEnv)
SpecBrowse == Init /\ [][NextBrowse]_vars

(***************************************************************************)
(* LegLight.color on its own: one light, as its constructor left it, and   *)
(* one call of color(temp) that the device answers.                        *)
(***************************************************************************)
KelvinInputs == (2900 - FitMargin)..(7000 + FitMargin)

InitFit ==
    /\ all_lights = <<FoundLight("10.0.0.5", 9123, "SN123", OnReport)>>
    /\ ping_failures = [s \in Serials |-> 0]
    /\ pc = "fit"
    /\ last = Observed("init", NoMessage, <<>>, <<>>, NoState, "")
    /\ probe_streak = [k \in LowerSerials |-> 0]
    /\ unknown_reported = FALSE

color_fit ==
    /\ pc = "fit"
    /\ \E temp \in KelvinInputs :
       \E r \in {color(all_lights[1], temp, "ok")} :
         /\ all_lights' = <<r.light>>
         /\ last' = [Observed("color", NoMessage, <<>>, r.calls, NoState, "done")
                       EXCEPT !.temp = temp]
    /\ pc' = "fitted"
    /\ UNCHANGED <<ping_failures, probe_streak, unknown_reported>>

NextFit == color_fit
SpecFit == InitFit /\ [][NextFit]_vars

(***************************************************************************)
(* Vocabulary of the properties.                                           *)
(***************************************************************************)
\* the serials of a registry, ignoring case
RegistrySerials(lights) == { Lower(lights[i].serialNumber) : i \in 1..Len(lights) }

KnownSerial(lights, serial) == Lower(serial) \in RegistrySerials(lights)

RecordSet(lights) == { lights[i] : i \in 1..Len(lights) }

SameLocation(a, b) == a.address = b.address /\ a.port = b.port

SameStatus(a, b) ==
    /\ a.isOn = b.isOn
    /\ a.isBrightness = b.isBrightness
    /\ a.isTemperature = b.isTemperature

\* the candidates of a snapshot that carry light's serial
CandidatesFor(light, snapshot) ==
    { i \in 1..Len(snapshot) :
        Lower(snapshot[i].serialNumber) = Lower(light.serialNumber) }

\* a brightness outside 0..100 or a color outside 2900..7000
OutOfRange(msg) ==
    /\ IsInt(msg.payload)
    /\ \/ msg.what = "brightness"
          /\ ~(0 <= IntOf(msg.payload) /\ IntOf(msg.payload) <= 100)
       \/ msg.what = "color"
          /\ ~(2900 <= IntOf(msg.payload) /\ IntOf(msg.payload) <= 7000)

PutCalls(calls) == { i \in 1..Len(calls) : calls[i].method = "PUT" }

(***************************************************************************)
(* C1.  A cleanup_lights pass removes a device if and only if the device   *)
(* has then failed FailureLimit (3) probes in a row: with fewer it stays,  *)
(* with 3 it goes.                                                         *)
(***************************************************************************)
C1_EvictedIffThreeFailedProbes ==
    [][ last'.op = "cleanup" =>
          \A n \in 1..Len(all_lights) :
            LET k == Lower(all_lights[n].serialNumber)
            IN  (k \notin RegistrySerials(all_lights'))
                  <=> (probe_streak'[k] >= FailureLimit) ]_vars

(***************************************************************************)
(* C2.  The registry never holds two devices whose serials are equal       *)
(* ignoring case, whatever discover_lights has merged.                     *)
(***************************************************************************)
C2_NoDuplicateSerials ==
    \A i, j \in 1..Len(all_lights) :
        i # j => Lower(all_lights[i].serialNumber) # Lower(all_lights[j].serialNumber)

\* a merge whose snapshot named one device twice, under serials that differ
\* in case and at two addresses, into a registry that holds it
C2_Witness ==
    /\ last.op = "discover"
    /\ \E i, j \in 1..Len(last.snapshot) :
         /\ i < j
         /\ last.snapshot[i].serialNumber # last.snapshot[j].serialNumber
         /\ Lower(last.snapshot[i].serialNumber) = Lower(last.snapshot[j].serialNumber)
         /\ ~SameLocation(last.snapshot[i], last.snapshot[j])
         /\ KnownSerial(all_lights, last.snapshot[i].serialNumber)
    /\ Len(all_lights) = 2

C4_UnknownSerialNoCall ==
    [][ (last'.op = "message" /\ ~KnownSerial(all_lights, last'.msg.serial)) =>
          /\ last'.calls = <<>>
          /\ all_lights' = all_lights
          /\ ping_failures' = ping_failures
          /\ last'.outcome = "unknown" ]_vars

(***************************************************************************)
(* C5.  A brightness outside 0..100 or a color outside 2900..7000 sent to  *)
(* a known device is rejected before any request goes to the device: no    *)
(* HEAD, no GET, no PUT.                                                   *)
(***************************************************************************)
C5_OutOfRangeNoCall ==
    [][ (/\ last'.op = "message"
         /\ KnownSerial(all_lights, last'.msg.serial)
         /\ OutOfRange(last'.msg)) => last'.calls = <<>> ]_vars

(***************************************************************************)
(* C6.  A brightness or color out of range sent to a known device leaves   *)
(* the cached status of that device as it was.                             *)
(***************************************************************************)
C6_OutOfRangeStatusKept ==
    [][ (/\ last'.op = "message"
         /\ KnownSerial(all_lights, last'.msg.serial)
         /\ OutOfRange(last'.msg)) =>
          LET n == find_light(all_lights, last'.msg.serial)
          IN  SameStatus(all_lights'[n], all_lights[n]) ]_vars

(***************************************************************************)
(* C7.  A discover_lights merge in which a candidate has the serial,       *)
(* address and port of a registered device leaves that device's cached     *)
(* status and its failure count as they were; and merging the snapshot     *)
(* again, once or twice more, gives the same records as merging it once.   *)
(***************************************************************************)
Reproduces(candidate, light) ==
    /\ Lower(candidate.serialNumber) = Lower(light.serialNumber)
    /\ SameLocation(candidate, light)

C7_UnchangedCandidateIdempotent ==
    [][ last'.op = "discover" =>
          /\ \A n \in 1..Len(all_lights) :
               (\E i \in 1..Len(last'.snapshot) :
                    Reproduces(last'.snapshot[i], all_lights[n])) =>
                 /\ \E m \in 1..Len(all_lights') :
                      /\ Lower(all_lights'[m].serialNumber)
                           = Lower(all_lights[n].serialNumber)
                      /\ SameStatus(all_lights'[m], all_lights[n])
                 /\ ping_failures'[all_lights[n].serialNumber]
                      = ping_failures[all_lights[n].serialNumber]
          /\ RecordSet(merge(all_lights', last'.snapshot)) = RecordSet(all_lights')
          /\ RecordSet(merge(merge(all_lights', last'.snapshot), last'.snapshot))
               = RecordSet(all_lights') ]_vars

(***************************************************************************)
(* C8.  When discovery names a registered device at another address or     *)
(* port, the pass moves the record to the new location and keeps its       *)
(* serial and its cached status.                                           *)
(***************************************************************************)
RelocatedBy(light, snapshot) ==
    /\ CandidatesFor(light, snapshot) # {}
    /\ \A i \in CandidatesFor(light, snapshot) : ~SameLocation(snapshot[i], light)
    /\ \A i, j \in CandidatesFor(light, snapshot) : SameLocation(snapshot[i], snapshot[j])

C8_RelocationKeepsStatus ==
    [][ last'.op = "discover" =>
          \A n \in 1..Len(all_lights) :
            RelocatedBy(all_lights[n], last'.snapshot) =>
              \E m \in 1..Len(all_lights') :
                /\ Lower(all_lights'[m].serialNumber) = Lower(all_lights[n].serialNumber)
                /\ \A i \in CandidatesFor(all_lights[n], last'.snapshot) :
                     SameLocation(all_lights'[m], last'.snapshot[i])
                /\ SameStatus(all_lights'[m], all_lights[n]) ]_vars

(***************************************************************************)
(* C9.  As claimed: power "on" for a registered device sends a PUT to      *)
(* /elgato/lights carrying on=1 to that device, and afterwards the cached  *)
(* status of the device is on.                                             *)
(***************************************************************************)
PowerOnForKnown ==
    /\ last'.op = "message"
    /\ last'.msg.what = "power"
    /\ last'.msg.payload = "on"
    /\ KnownSerial(all_lights, last'.msg.serial)

IsOnPut(call, light) ==
    /\ call.method = "PUT"
    /\ call.path = LightsPath
    /\ call.field = "on"
    /\ call.value = 1
    /\ SameLocation(call, light)

C10_LoopNeverEnds == pc # "exited"

(***************************************************************************)
(* C11.  The first message that ends at the "not found" warning has made   *)
(* its handler call leglight.discover before giving up: an intent for a    *)
(* serial the registry does not hold asks for a discovery pass, at least   *)
(* when none was asked for before.                                         *)
(***************************************************************************)
C11_UnknownSerialAsksDiscovery ==
    [][ (last'.op = "message" /\ last'.outcome = "unknown" /\ ~unknown_reported) =>
          last'.attempts > 0 ]_vars

(***************************************************************************)
(* C12.  While the loop's thread is inside leglight.discover, a message    *)
(* for a device of the registry can still be handled: mqtt_on_message is   *)
(* enabled in every state in which a discovery pass is waiting.            *)
(***************************************************************************)
C12_DispatcherNotBlocked ==
    (pc = "discovering" /\ all_lights # <<>>) => ENABLED mqtt_on_message(DispatchEnv)

(***************************************************************************)
(* C13.  For every temp in 2900..7000, color(temp) sends colorFit(temp)    *)
(* and stores postFit(colorFit(temp)), which lies within 100 of temp.      *)
(***************************************************************************)
Distance(a, b) == IF a < b THEN b - a ELSE a - b

C13_RoundTripWithin100 ==
    (pc = "fitted" /\ 2900 <= last.temp /\ last.temp <= 7000) =>
        /\ Len(last.calls) = 1
        /\ last.calls[1].value = colorFit(last.temp)
        /\ all_lights[1].isTemperature = postFit(colorFit(last.temp))
        /\ Distance(postFit(colorFit(last.temp)), last.temp) <= 100

\* a temp that comes back changed by more than 90
C13_Witness ==
    /\ pc = "fitted"
    /\ 2900 <= last.temp /\ last.temp <= 7000
    /\ last.calls # <<>>
    /\ Distance(all_lights[1].isTemperature, last.temp) > 90

(***************************************************************************)
(* C14.  Every light of the registry has a cached brightness in 0..100     *)
(* and a cached temperature in 2900..7000 Kelvin, in every reachable state. *)
(***************************************************************************)
C14_CachedStatusInRange ==
    \A n \in 1..Len(all_lights) :
        /\ 0 <= all_lights[n].isBrightness /\ all_lights[n].isBrightness <= 100
        /\ 2900 <= all_lights[n].isTemperature /\ all_lights[n].isTemperature <= 7000

(***************************************************************************)
(* C15.  Every probe of a registered light that fails raises that light's  *)
(* ping_failures by exactly one, and every probe that succeeds, in a       *)
(* cleanup_lights pass or in mqtt_on_message, sets it to zero.             *)
(***************************************************************************)
ProbeCounted(light, call) ==
    /\ call.resp = "ok" => ping_failures'[light.serialNumber] = 0
    /\ call.resp # "ok" =>
         ping_failures'[light.serialNumber] = ping_failures[light.serialNumber] + 1

C15_ProbesCounted ==
    [][ /\ last'.op = "cleanup" =>
             \A n \in 1..Len(all_lights) : ProbeCounted(all_lights[n], last'.calls[n])
        /\ (last'.op = "message" /\ last'.calls # <<>>) =>
             ProbeCounted(all_lights[find_light(all_lights, last'.msg.serial)],
                          last'.calls[1]) ]_vars

(***************************************************************************)
(* C16.  For a message with a valid value whose device answered the probe, *)
(* one PUT of the commanded field is sent when the value differs from the  *)
(* status just fetched, a failed fetch counting as differing, and no PUT   *)
(* is sent when they are equal.                                            *)
(***************************************************************************)
ValidCommand(msg) ==
    \/ msg.what = "power" /\ msg.payload \in {"on", "off"}
    \/ msg.what \in {"brightness", "color"} /\ IsInt(msg.payload) /\ ~OutOfRange(msg)

CommandedField(msg) ==
    CASE msg.what = "power" -> "on"
      [] msg.what = "brightness" -> "brightness"
      [] OTHER -> "temperature"

DiffersFrom(msg, state) ==
    CASE msg.what = "power" -> state.on # (IF msg.payload = "on" THEN 1 ELSE 0)
      [] msg.what = "brightness" -> state.brightness # IntOf(msg.payload)
      [] OTHER -> state.temperature # IntOf(msg.payload)

C16_WriteIffDiffers ==
    [][ (/\ last'.op = "message"
         /\ KnownSerial(all_lights, last'.msg.serial)
         /\ ValidCommand(last'.msg)
         /\ Len(last'.calls) >= 2
         /\ last'.calls[2].resp \in {"ok", "empty", "fail"}) =>
          IF DiffersFrom(last'.msg, last'.state)
          THEN /\ Cardinality(PutCalls(last'.calls)) = 1
               /\ \A i \in PutCalls(last'.calls) :
                    last'.calls[i].field = CommandedField(last'.msg)
          ELSE PutCalls(last'.calls) = {} ]_vars

(***************************************************************************)
(* C17.  A cleanup_lights pass has called close() on every light it        *)
(* removed from the registry, so that no removed light keeps its session   *)
(* open.                                                                   *)
(***************************************************************************)
C17_EvictedLightsClosed ==
    [][ last'.op = "cleanup" =>
          \A n \in 1..Len(all_lights) :
            all_lights[n] \notin RecordSet(all_lights') =>
              all_lights[n] \in RecordSet(last'.closed) ]_vars

(***************************************************************************)
(* C18.  discover() makes at most retry_count attempts, makes no attempt   *)
(* after the first one at whose end its list holds a light, and returns    *)
(* the empty list when no attempt ended with a light.                      *)
(***************************************************************************)
C18_DiscoverStopsAtFirstLight ==
    last.op = "discover" =>
        /\ 1 <= last.attempts /\ last.attempts <= RetryCount
        /\ last.ended > 0 => last.attempts = last.ended
        /\ last.ended = 0 => (last.snapshot = <<>> /\ last.attempts = RetryCount)

(***************************************************************************)
(* C19.  As claimed: in a discover_lights pass that names a registered     *)
(* device at another address or port, every other record of the registry   *)
(* is still in it after the pass and the number of records is the same.    *)
(***************************************************************************)
ReportedElsewhere(light, snapshot) ==
    \E i \in CandidatesFor(light, snapshot) : ~SameLocation(snapshot[i], light)

SnapshotSerials(snapshot) ==
    { Lower(snapshot[i].serialNumber) : i \in 1..Len(snapshot) }

C19_RelocationKeepsRestAndCount ==
    [][ last'.op = "discover" =>
          \A n \in 1..Len(all_lights) :
            ReportedElsewhere(all_lights[n], last'.snapshot) =>
              /\ Len(all_lights') = Len(all_lights)
              /\ \A m \in 1..Len(all_lights) :
                   m # n => all_lights[m] \in RecordSet(all_lights') ]_vars

(***************************************************************************)
(* C19, as the code has it: a discover_lights pass leaves every record     *)
(* whose device it does not name at another address or port in the         *)
(* registry, takes out only records whose device it names elsewhere, keeps *)
(* one record for each of their serials, and lengthens the registry by one *)
(* record for each serial it names that was not registered.                *)
(***************************************************************************)
C19_RelocationReplacesOnlyMoved ==
    [][ last'.op = "discover" =>
          /\ \A n \in 1..Len(all_lights) :
               ~ReportedElsewhere(all_lights[n], last'.snapshot) =>
                 all_lights[n] \in RecordSet(all_lights')
          /\ RegistrySerials(all_lights')
               = RegistrySerials(all_lights) \cup SnapshotSerials(last'.snapshot)
          /\ Len(all_lights') = Len(all_lights)
               + Cardinality(SnapshotSerials(last'.snapshot)
                               \ RegistrySerials(all_lights)) ]_vars

\* a pass that named only the first of two registered devices, at another
\* location: its record was taken out while the loop stood on it, and the
\* second record is still there
C19_Witness ==
    /\ last.op = "discover"
    /\ Len(last.snapshot) = 1
    /\ last.replaced = {1}
    /\ Len(all_lights) = 2
    /\ all_lights[2] = last.snapshot[1]
    /\ Lower(all_lights[1].serialNumber) # Lower(all_lights[2].serialNumber)

(***************************************************************************)
(* C20.  Every PUT a message causes that carries a brightness carries the  *)
(* requested level and it lies in 0..100, and every PUT that carries a     *)
(* color temperature carries the encoding of the requested Kelvin value,   *)
(* which lies in 2900..7000 and whose encoding decodes into 2900..7000.    *)
(***************************************************************************)
C20_PutsCarryInRangeValues ==
    last.op = "message" =>
      \A i \in PutCalls(last.calls) :
        /\ last.calls[i].field = "brightness" =>
             /\ last.msg.what = "brightness"
             /\ last.calls[i].value = IntOf(last.msg.payload)
             /\ 0 <= last.calls[i].value /\ last.calls[i].value <= 100
        /\ last.calls[i].field = "temperature" =>
             /\ last.msg.what = "color"
             /\ 2900 <= IntOf(last.msg.payload) /\ IntOf(last.msg.payload) <= 7000
             /\ last.calls[i].value = colorFit(IntOf(last.msg.payload))
             /\ 2900 <= postFit(last.calls[i].value)
             /\ postFit(last.calls[i].value) <= 7000

\* brightness 101 for a light whose status was read and differs from it:
\* the handler ended after the probe and the read, without a PUT
C20_Witness ==
    /\ last.op = "message"
    /\ last.msg.what = "brightness" /\ last.msg.payload = "101"
    /\ last.outcome = "done"
    /\ last.state.brightness = 50
    /\ Len(last.calls) = 2
    /\ PutCalls(last.calls) = {}

====
